---- MODULE Spec2Model ----
(***************************************************************************)
(* otrcat: the session orchestrator (mainLoop), the authorisation policy   *)
(* (authoriseRemember), the contact store and the I/O pumps.               *)
(*                                                                         *)
(* Goroutines are interleaved at the granularity of one select case of     *)
(* mainLoop, or one loop iteration of a pump.  os.Exit from any goroutine  *)
(* stops every other one (exit # "running" disables every action).         *)
(*                                                                         *)
(* The OTR engine (otr.Conversation) is a library outside the repository.  *)
(* It is modelled by its observable contract: a message state (plaintext,  *)
(* encrypted, finished), the peer key learnt when a key exchange           *)
(* completes, and the tuples Receive/Send/End return in each state.        *)
(***************************************************************************)
EXTENDS Integers, Sequences, FiniteSets, TLC

(* ------------------------------ bounds -------------------------------- *)
\* frames the peer sends during one run
MaxFrames == 2
\* reads the local read pump completes during one run
MaxReads == 1

(* -------------------------- program constants ------------------------- *)
\* capacity of netOutChan, netInChan, stdOutChan and stdInChan
ChanCap == 100

(* ------------------------------ domains ------------------------------- *)
\* contact names given to -remember / -expect or found in the contacts file
Names == {"alice", "bob"}
\* the reserved name of the local identity
Me == "me"
\* fingerprints of keys a peer may present; MyKey is the local key's own
PeerKeys == {"AA11", "BB22"}
MyKey == "ME00"
Fingerprints == PeerKeys \cup {MyKey}

EmptyMap == [k \in {} |-> ""]
Put(m, k, v) == [x \in (DOMAIN m) \cup {k} |-> IF x = k THEN v ELSE m[x]]
Restrict(m, S) == [x \in S |-> m[x]]

\* the contacts files the program itself can have written: one line per
\* name, no line for "me", no fingerprint under two names
WrittenStores ==
    { t \in UNION { [S -> PeerKeys] : S \in SUBSET Names } :
        \A a, b \in DOMAIN t : t[a] = t[b] => a = b }

VARIABLES
    \* command line (otrcat.go var block)
    anyone, remember, expect, execCommand,
    \* contact book and the contacts file
    contacts, contactsReverse, store, storeWrites,
    \* the main goroutine: position, exit status, last diagnostic on stderr
    pc, exit, diag, notes,
    \* the OTR engine (conv)
    convState, theirKey,
    \* mainLoop locals; lastRecv is what the last conv.Receive returned
    authorised, theirFingerprint, lastRecv,
    \* channels
    netInChan, netInClosed, netOutChan, stdInChan, stdInClosed, stdOutChan,
    sigPending,
    \* goroutines and the spawned -exec process
    sendPump, recvPump, readPump, writePump, sigPump, cmdStarted,
    \* the transport and the local sink, as written so far
    wire, localOut,
    \* environment budget
    framesIn, reads,
    \* history: calls of authoriseRemember and its outcome
    authCalls, decision,
    \* the frame codec on its own: the frames given to Encode and how many of
    \* them were encoded, the bytes written and not yet read, whether the
    \* writer closed, the bytes Read returned so far, the decoder's queue, the
    \* frames Decode returned and the error that ended decoding
    codecFrames, encCount, stream, streamClosed, received, queue, decoded,
    decErr,
    \* two connected sessions, per side: where mainLoop is, the reads its
    \* local source has returned, and the number of messages on stdInChan,
    \* on netOutChan, in the transport towards the other side, on netInChan
    \* and on stdOutChan
    mainAt, srcReads, qStdIn, qNetOut, link, qNetIn, qStdOut

vars == << anyone, remember, expect, execCommand,
           contacts, contactsReverse, store, storeWrites,
           pc, exit, diag, notes, convState, theirKey,
           authorised, theirFingerprint, lastRecv,
           netInChan, netInClosed, netOutChan, stdInChan, stdInClosed,
           stdOutChan, sigPending,
           sendPump, recvPump, readPump, writePump, sigPump, cmdStarted,
           wire, localOut, framesIn, reads, authCalls, decision,
           codecFrames, encCount, stream, streamClosed, received, queue,
           decoded, decErr,
           mainAt, srcReads, qStdIn, qNetOut, link, qNetIn, qStdOut >>

\* two connected sessions (the queue-capacity model further down)
pairVars == << mainAt, srcReads, qStdIn, qNetOut, link, qNetIn, qStdOut >>
cfgVars == << remember, expect, execCommand >>
codecVars == << codecFrames, encCount, stream, streamClosed, received, queue,
               decoded, decErr >>
sessionVars == << anyone, remember, expect, execCommand,
                 contacts, contactsReverse, store, storeWrites,
                 pc, exit, diag, notes, convState, theirKey,
                 authorised, theirFingerprint, lastRecv,
                 netInChan, netInClosed, netOutChan, stdInChan, stdInClosed,
                 stdOutChan, sigPending,
                 sendPump, recvPump, readPump, writePump, sigPump, cmdStarted,
                 wire, localOut, framesIn, reads, authCalls, decision >>
bookVars == << contacts, contactsReverse, store, storeWrites >>
engineVars == << convState, theirKey >>
authVars == << authorised, theirFingerprint, authCalls, decision, notes >>
recvVars == << convState, theirKey, lastRecv >>
localPumpVars == << readPump, writePump, cmdStarted >>
remotePumpVars == << sendPump, recvPump, sigPump >>
inChanVars == << netInChan, netInClosed >>
stdInVars == << stdInChan, stdInClosed >>

\* os.Exit leaving the goroutines alive
RunningAfterExit == TRUE

Running == exit = "running"

(* ------------------------------ the engine ---------------------------- *)
\* The frames on netInChan are numbered in the order the decoder yields them;
\* what a frame holds shows when the engine receives it.  Inbound frames, by
\* what the engine makes of them:
\*   bad    malformed or unverifiable: Receive returns an error
\*   plain  not an OTR message: returned as unencrypted plaintext
\*   ake    a query or key-exchange step: a reply to transmit (in two
\*          messages), no state change
\*   sig    the message completing a key exchange with the given peer key
\*   data   an encrypted data message (body "text" or empty)
\*   disc   an encrypted data message carrying the disconnect TLV
Frames ==
    { <<"bad", "">>, <<"plain", "text">>, <<"ake", "">>,
      <<"data", "text">>, <<"data", "">>, <<"disc", "">>, <<"disc", "text">> }
    \cup { <<"sig", k>> : k \in Fingerprints }

Result(err, plaintext, encrypted, change, toSend, st, key) ==
    [ err |-> err, plaintext |-> plaintext, encrypted |-> encrypted,
      change |-> change, toSend |-> toSend, state |-> st, key |-> key ]

\* before the first call of Receive
NoResult == Result(FALSE, "", FALSE, "NoChange", <<>>, "plaintext", "")

\* conv.Receive(otrText): (plaintext, encrypted, state, toSend, err) and the
\* engine state left behind
Receive(f, st, key) ==
    CASE f[1] = "plain" -> Result(FALSE, f[2], FALSE, "NoChange", <<>>, st, key)
      [] f[1] = "ake"   -> Result(FALSE, "", FALSE, "NoChange",
                                  << [enc |-> FALSE, body |-> "ake"],
                                     [enc |-> FALSE, body |-> "ake2"] >>,
                                  st, key)
      [] f[1] = "sig"   -> Result(FALSE, "", FALSE, "NewKeys",
                                  << [enc |-> FALSE, body |-> "ake"] >>,
                                  "encrypted", f[2])
      [] f[1] = "data" /\ st = "encrypted"
                        -> Result(FALSE, f[2], TRUE, "NoChange", <<>>, st, key)
      [] f[1] = "disc" /\ st = "encrypted"
                        -> Result(FALSE, f[2], TRUE, "ConversationEnded", <<>>,
                                  "finished", key)
      [] OTHER          -> Result(TRUE, "", FALSE, "NoChange", <<>>, st, key)

\* the check of mainLoop left out: every processed frame counts as encrypted
IsEncryptedAlways(st) == TRUE

\* conv.IsEncrypted()
IsEncrypted(st) == st = "encrypted"

\* conv.Send(plaintext): (toSend, err).  In the plaintext state the message
\* goes out as it is; in the encrypted state it goes out as a data message.
Send(msg, st) ==
    CASE st = "plaintext" -> [err |-> FALSE,
                              toSend |-> << [enc |-> FALSE, body |-> msg] >>]
      [] st = "encrypted" -> [err |-> FALSE,
                              toSend |-> << [enc |-> TRUE, body |-> msg] >>]
      [] OTHER            -> [err |-> TRUE, toSend |-> <<>>]

\* conv.End(): the termination frames, and the state left behind
End(st) ==
    IF st = "encrypted"
    THEN [toSend |-> << [enc |-> TRUE, body |-> "disconnect"] >>,
          state |-> "plaintext"]
    ELSE [toSend |-> <<>>, state |-> "plaintext"]

\* the nil message mainLoop puts on netOutChan to stop the remote write pump
Nil == [enc |-> FALSE, body |-> "nil"]

(* --------------------------- the contact store ------------------------ *)
NoStore == [exists |-> FALSE, tab |-> EmptyMap]

\* "me" written to the contacts file like any other entry
StoreImageWithMe(c) == c

\* what saveContacts writes for a contact book: every entry but "me"
StoreImage(c) == Restrict(c, (DOMAIN c) \ {Me})

\* saveContacts(path), by how far it gets: "create" fails in os.Create and
\* leaves the file alone; "write" fails after the file was truncated and
\* part of the entries written; "close" fails after the last entry; "ok".
SaveOutcomes == {"ok", "create", "write", "close"}

SaveContacts(c, st, how, part) ==
    CASE how = "create" -> [ok |-> FALSE, store |-> st]
      [] how = "write"  -> [ok |-> FALSE,
                            store |-> [exists |-> TRUE,
                                       tab |-> Restrict(c, part)]]
      [] how = "close"  -> [ok |-> FALSE,
                            store |-> [exists |-> TRUE, tab |-> StoreImage(c)]]
      [] OTHER          -> [ok |-> TRUE,
                            store |-> [exists |-> TRUE, tab |-> StoreImage(c)]]

\* the entries a failing write can have put in the file already
Partial(c) == { S \in SUBSET (DOMAIN StoreImage(c)) : S # DOMAIN StoreImage(c) }

(* ------------------------ authoriseRemember --------------------------- *)
\* the name comparison left out
ExpectAllowsAnyKnown(known, name, exp) == known

\* -expect NAME: the contact must be known under exactly that name
ExpectAllows(known, name, exp) == known /\ name = exp

\* the unknown-contact check left out
DefaultAllowsEverybody(any, known) == TRUE

\* -anyone not looked at
DefaultAllowsKnownOnly(any, known) == known

\* no -expect: a known contact, or anybody under -anyone
DefaultAllows(any, known) == any \/ known

\* -remember NAME applied to known contacts too
MustRememberAlways(rem, known) == rem # ""

\* -remember NAME takes effect for an unknown contact only
MustRemember(rem, known) == rem # "" /\ ~known

\* the two map updates of the remember branch
RememberContacts(c, rem, fingerprint) == Put(c, rem, fingerprint)
\* the reverse map left as it was
RememberReverseForgotten(cr, rem, fingerprint) == cr

RememberReverse(cr, rem, fingerprint) == Put(cr, fingerprint, rem)

\* authoriseRemember(fingerprint) up to its call of saveContacts: the verdict
\* ("Reject" stands for exitPrintf), the maps, whether saveContacts is called,
\* and what it prints on stderr
AuthoriseRemember(fingerprint, c, cr, any, rem, exp) ==
    LET known == fingerprint \in DOMAIN cr
        name  == IF known THEN cr[fingerprint] ELSE ""
        Verdict(v, d, c2, cr2, sv, n) ==
            [ verdict |-> v, diag |-> d, contacts |-> c2,
              contactsReverse |-> cr2, save |-> sv, notes |-> n ]
    IN  IF exp # ""
        THEN IF ExpectAllows(known, name, exp)
             THEN Verdict("Allow", "", c, cr, FALSE, {})
             ELSE IF ~known
                  THEN Verdict("Reject", "expected contact is unknown",
                               c, cr, FALSE, {})
                  ELSE Verdict("Reject", "expected contact is another",
                               c, cr, FALSE, {})
        ELSE IF ~DefaultAllows(any, known)
        THEN Verdict("Reject", "the contact is unknown", c, cr, FALSE, {})
        ELSE IF MustRemember(rem, known)
        THEN Verdict("Allow", "", RememberContacts(c, rem, fingerprint),
                     RememberReverse(cr, rem, fingerprint), TRUE,
                     {"Remembering"})
        ELSE Verdict("Allow", "", c, cr, FALSE,
                     IF rem # "" /\ known THEN {"Warning"}
                     ELSE IF rem = "" /\ known THEN {"TheContactIs"}
                     ELSE {})

(* ------------------------------- startup ------------------------------ *)
\* the process before main runs: nothing loaded, no goroutine started
Fresh ==
    /\ contacts = EmptyMap
    /\ contactsReverse = EmptyMap
    /\ storeWrites = 0
    /\ pc = "useKey"
    /\ exit = "running"
    /\ diag = ""
    /\ notes = {}
    /\ convState = "plaintext"
    /\ theirKey = ""
    /\ authorised = FALSE
    /\ theirFingerprint = ""
    /\ lastRecv = NoResult
    /\ netInChan = <<>>
    /\ netInClosed = FALSE
    /\ netOutChan = <<>>
    /\ stdInChan = <<>>
    /\ stdInClosed = FALSE
    /\ stdOutChan = <<>>
    /\ sigPending = FALSE
    /\ sendPump = "off"
    /\ recvPump = "off"
    /\ readPump = "off"
    /\ writePump = "off"
    /\ sigPump = "off"
    /\ cmdStarted = FALSE
    /\ wire = <<>>
    /\ localOut = <<>>
    /\ framesIn = 0
    /\ reads = 0
    /\ authCalls = 0
    /\ decision = "none"

\* the codec before anything was encoded or read
CodecIdle ==
    /\ codecFrames = <<>>
    /\ encCount = 0
    /\ stream = <<>>
    /\ streamClosed = FALSE
    /\ received = <<>>
    /\ queue = <<>>
    /\ decoded = <<>>
    /\ decErr = ""

\* the two sides of a connection
Sides == {1, 2}
Other(s) == 3 - s

\* no pair of sessions is running
PairIdle ==
    /\ mainAt = [s \in Sides |-> "off"]
    /\ srcReads = [s \in Sides |-> 0]
    /\ qStdIn = [s \in Sides |-> 0]
    /\ qNetOut = [s \in Sides |-> 0]
    /\ link = [s \in Sides |-> 0]
    /\ qNetIn = [s \in Sides |-> 0]
    /\ qStdOut = [s \in Sides |-> 0]

\* every command line and every contacts file
InitAuth ==
    /\ anyone \in BOOLEAN
    /\ remember \in {"", Me} \cup Names
    /\ expect \in {""} \cup Names
    /\ execCommand \in {"", "sh"}
    /\ store \in {NoStore} \cup { [exists |-> TRUE, tab |-> t] : t \in WrittenStores }
    /\ Fresh
    /\ CodecIdle
    /\ PairIdle

\* the sessions: no -expect and no -remember, alice the one known contact
Init ==
    /\ anyone \in BOOLEAN
    /\ remember = ""
    /\ expect = ""
    /\ execCommand \in {"", "sh"}
    /\ store = [exists |-> TRUE, tab |-> [n \in {"alice"} |-> "AA11"]]
    /\ Fresh
    /\ CodecIdle
    /\ PairIdle

\* the sessions with -remember bob, alice the one known contact
InitRemember ==
    /\ anyone \in BOOLEAN
    /\ remember = "bob"
    /\ expect = ""
    /\ execCommand = ""
    /\ store = [exists |-> TRUE, tab |-> [n \in {"alice"} |-> "AA11"]]
    /\ Fresh
    /\ CodecIdle
    /\ PairIdle

\* the diagnostic is printed but the process ends with status 0
AbortExitsZero(d) == exit' = "exit0" /\ diag' = d

\* exitError / exitPrintf: a diagnostic on stderr and os.Exit(1)
Abort(d) == exit' = "exit1" /\ diag' = d

\* the key is selected but not entered in the contact book
UseKeyForgetsMe ==
    /\ Running /\ pc = "useKey"
    /\ \E keyOK \in BOOLEAN :
        IF ~keyOK
        THEN Abort("private key") /\ UNCHANGED pc
        ELSE pc' = "loadContacts" /\ UNCHANGED << exit, diag >>
    /\ UNCHANGED << anyone, cfgVars, codecVars, pairVars, bookVars, notes, engineVars,
                    lastRecv, authorised, theirFingerprint, authCalls,
                    decision, inChanVars, netOutChan, stdInVars, stdOutChan,
                    sigPending, localPumpVars, remotePumpVars, wire, localOut,
                    framesIn, reads >>

\* useKey(loadKey(privateKeyPath)): the local key enters the contact book as
\* "me" unless the key's fingerprint is already a name of the book
UseKey ==
    /\ Running /\ pc = "useKey"
    /\ \E keyOK \in BOOLEAN :
        IF ~keyOK
        THEN /\ Abort("private key")
             /\ UNCHANGED << pc, contacts, contactsReverse >>
        ELSE /\ pc' = "loadContacts"
             /\ IF MyKey \notin DOMAIN contacts
                THEN /\ contacts' = Put(contacts, Me, MyKey)
                     /\ contactsReverse' = Put(contactsReverse, MyKey, Me)
                ELSE UNCHANGED << contacts, contactsReverse >>
             /\ UNCHANGED << exit, diag >>
    /\ UNCHANGED << anyone, cfgVars, codecVars, pairVars, store, storeWrites, notes, engineVars, lastRecv,
                    authorised, theirFingerprint, authCalls, decision,
                    inChanVars, netOutChan, stdInVars, stdOutChan, sigPending,
                    localPumpVars, remotePumpVars, wire, localOut,
                    framesIn, reads >>

\* the contact book after reading every line of the contacts file
Loaded(c, tab) ==
    [n \in (DOMAIN c) \cup (DOMAIN tab) |->
        IF n \in DOMAIN tab THEN tab[n] ELSE c[n]]
LoadedReverse(cr, tab) ==
    [f \in (DOMAIN cr) \cup { tab[n] : n \in DOMAIN tab } |->
        IF \E n \in DOMAIN tab : tab[n] = f
        THEN CHOOSE n \in DOMAIN tab : tab[n] = f
        ELSE cr[f]]

\* loadContacts(contactsPath): a missing file is created by saveContacts,
\* an existing one is read line by line into both maps
LoadContacts ==
    /\ Running /\ pc = "loadContacts"
    /\ IF ~store.exists
       THEN \E how \in SaveOutcomes :
            \E part \in (IF how = "write" THEN Partial(contacts) ELSE {{}}) :
              LET s == SaveContacts(contacts, store, how, part) IN
              /\ store' = s.store
              /\ IF s.ok
                 THEN /\ pc' = "parseFlags"
                      /\ storeWrites' = storeWrites + 1
                      /\ UNCHANGED << exit, diag >>
                 ELSE /\ Abort("contacts file")
                      /\ UNCHANGED << pc, storeWrites >>
              /\ UNCHANGED << contacts, contactsReverse >>
       ELSE \E readOK \in BOOLEAN :
              IF readOK
              THEN /\ contacts' = Loaded(contacts, store.tab)
                   /\ contactsReverse' = LoadedReverse(contactsReverse, store.tab)
                   /\ pc' = "parseFlags"
                   /\ UNCHANGED << exit, diag, store, storeWrites >>
              ELSE /\ Abort("contacts file")
                   /\ UNCHANGED << pc, contacts, contactsReverse, store,
                                   storeWrites >>
    /\ UNCHANGED << anyone, cfgVars, codecVars, pairVars, notes, engineVars, lastRecv,
                    authorised, theirFingerprint, authCalls, decision,
                    inChanVars, netOutChan, stdInVars, stdOutChan, sigPending,
                    localPumpVars, remotePumpVars, wire, localOut,
                    framesIn, reads >>

\* the check of -remember against the known names left out
FlagConflictRememberUnchecked(any, rem, exp, c) ==
    IF exp # "" /\ rem # "" THEN "-expect and -remember are mutually exclusive"
    ELSE IF (any \/ rem # "") /\ exp # ""
         THEN "-expect and -anyone are mutually exclusive"
    ELSE IF exp # "" /\ exp \notin DOMAIN c THEN "can't expect unknown contact"
    ELSE ""

\* the first failing check of parseConversationFlags, "" when all pass
FlagConflict(any, rem, exp, c) ==
    IF exp # "" /\ rem # "" THEN "-expect and -remember are mutually exclusive"
    ELSE IF (any \/ rem # "") /\ exp # ""
         THEN "-expect and -anyone are mutually exclusive"
    ELSE IF exp # "" /\ exp \notin DOMAIN c THEN "can't expect unknown contact"
    ELSE IF rem # "" /\ rem \in DOMAIN c
         THEN "can't re-remember a known contact"
    ELSE ""

\* parseConversationFlags(): -remember implies -anyone, then the four checks
ParseConversationFlags ==
    /\ Running /\ pc = "parseFlags"
    /\ anyone' = (anyone \/ remember # "")
    /\ IF FlagConflict(anyone, remember, expect, contacts) # ""
       THEN Abort(FlagConflict(anyone, remember, expect, contacts))
            /\ UNCHANGED pc
       ELSE pc' = "connect" /\ UNCHANGED << exit, diag >>
    /\ UNCHANGED << cfgVars, codecVars, pairVars, bookVars, notes, engineVars, lastRecv,
                    authorised, theirFingerprint, authCalls, decision,
                    inChanVars, netOutChan, stdInVars, stdOutChan, sigPending,
                    localPumpVars, remotePumpVars, wire, localOut,
                    framesIn, reads >>

\* connect / listen / proxy: net.Dial, Listen+Accept or startProxy, then
\* mainLoop is entered with the connection
Connect ==
    /\ Running /\ pc = "connect"
    /\ \E connOK \in BOOLEAN :
        IF connOK
        THEN pc' = "mainLoop" /\ UNCHANGED << exit, diag >>
        ELSE Abort("connection") /\ UNCHANGED pc
    /\ UNCHANGED << anyone, cfgVars, codecVars, pairVars, bookVars, notes, engineVars, lastRecv,
                    authorised, theirFingerprint, authCalls, decision,
                    inChanVars, netOutChan, stdInVars, stdOutChan, sigPending,
                    localPumpVars, remotePumpVars, wire, localOut,
                    framesIn, reads >>

(* ------------------------------ mainLoop ------------------------------ *)
\* mainLoop up to its select: the remote pumps and sigLoop are started and
\* the handshake message is queued on stdInChan; local is the state the local
\* pumps are left in
MainLoopStartWith(local) ==
    /\ Running /\ pc = "mainLoop"
    /\ sendPump' = "running"
    /\ recvPump' = "running"
    /\ sigPump' = "running"
    /\ readPump' = local
    /\ writePump' = local
    /\ stdInChan' = Append(stdInChan, "query")
    /\ pc' = "loop"
    /\ UNCHANGED << anyone, cfgVars, codecVars, pairVars, bookVars, exit, diag, engineVars, lastRecv, authVars,
                    inChanVars, netOutChan, stdInClosed, stdOutChan, sigPending,
                    cmdStarted, wire, localOut, framesIn, reads >>

\* the variant with "go readLoop" and "go writeLoop" before the loop
MainLoopStartEarlyPumps == MainLoopStartWith("running")

\* the code: both go statements before the loop are commented out
MainLoopStart == MainLoopStartWith("off")

\* the nil message queued before the termination messages
EndingSentinelFirst ==
    /\ netOutChan' = netOutChan \o << Nil >> \o End(convState).toSend
    /\ convState' = End(convState).state
    /\ pc' = "shutdown"

\* the messages queued last first
sendNewestFirst(q, toSend) ==
    q \o [i \in 1..Len(toSend) |-> toSend[Len(toSend) + 1 - i]]

\* send := func(toSend [][]byte): each message is put on netOutChan, in order
send(q, toSend) == q \o toSend

\* after the loop: conv.End(), send(toSend), netOutChan <- nil
Ending ==
    /\ netOutChan' = Append(send(netOutChan, End(convState).toSend), Nil)
    /\ convState' = End(convState).state
    /\ pc' = "shutdown"

\* the interrupt treated as an error: exit status 1 and no ending
HandleSignalAborts ==
    /\ Running /\ pc = "loop" /\ sigPending
    /\ sigPending' = FALSE
    /\ Abort("interrupted")
    /\ UNCHANGED << anyone, cfgVars, codecVars, pairVars, bookVars, pc, notes, engineVars, lastRecv,
                    authorised, theirFingerprint, authCalls, decision,
                    inChanVars, netOutChan, stdInVars, stdOutChan,
                    localPumpVars, remotePumpVars, wire, localOut,
                    framesIn, reads >>

\* case _ = <-sigTermChan: break Loop
HandleSignal ==
    /\ Running /\ pc = "loop" /\ sigPending
    /\ Len(netOutChan) + 2 <= ChanCap
    /\ sigPending' = FALSE
    /\ Ending
    /\ UNCHANGED << anyone, cfgVars, codecVars, pairVars, bookVars, exit, diag, theirKey, lastRecv,
                    authVars, inChanVars, stdInVars, stdOutChan,
                    localPumpVars, remotePumpVars, wire, localOut,
                    framesIn, reads >>

\* the test for a 0 byte left out
HasNulNever(msg) == FALSE

\* bytes.Index(plaintext, []byte{0}) != -1
HasNul(msg) == msg = "nul"

\* case plaintext, alive := <-stdInChan
HandleStdIn ==
    /\ Running /\ pc = "loop"
    /\ stdInChan # <<>> \/ stdInClosed
    /\ Len(netOutChan) + 2 <= ChanCap
    /\ IF stdInChan = <<>>
       THEN \* closed and drained: break Loop
            /\ Ending
            /\ UNCHANGED << stdInChan, exit, diag, notes >>
       ELSE /\ stdInChan' = Tail(stdInChan)
            /\ IF HasNul(Head(stdInChan))
               THEN /\ notes' = notes \cup {"OnlyText"}
                    /\ Ending
                    /\ UNCHANGED << exit, diag >>
               ELSE IF Send(Head(stdInChan), convState).err
               THEN /\ Abort("send error")
                    /\ UNCHANGED << netOutChan, convState, pc, notes >>
               ELSE /\ netOutChan' =
                          send(netOutChan, Send(Head(stdInChan), convState).toSend)
                    /\ UNCHANGED << convState, pc, exit, diag, notes >>
    /\ UNCHANGED << anyone, cfgVars, codecVars, pairVars, bookVars, theirKey, lastRecv,
                    authorised, theirFingerprint, authCalls, decision,
                    inChanVars, stdInClosed, stdOutChan, sigPending,
                    localPumpVars, remotePumpVars, wire, localOut,
                    framesIn, reads >>

\* "&&" for "||" in the abort condition
DeliverAllowedEither(encrypted, auth) == encrypted \/ auth

\* if !encrypted || !authorised { exitPrintf(...) }: the condition under
\* which received plaintext goes to stdOutChan
DeliverAllowed(encrypted, auth) == encrypted /\ auth

\* a change to another known contact let through
ContactChangedUnlessKnown(auth, recorded, fingerprint) ==
    auth /\ recorded # fingerprint /\ fingerprint \notin DOMAIN contactsReverse

\* if authorised && theirFingerprint != fingerprint { exitPrintf(...) }
ContactChanged(auth, recorded, fingerprint) == auth /\ recorded # fingerprint

\* authoriseRemember called for every encrypted frame
NeedsAuthorisingAlways(auth) == TRUE

\* if !authorised { ... authoriseRemember(fingerprint) ... }
NeedsAuthorising(auth) == ~auth

\* "authorised = true" left out
AuthorisedNeverSet == FALSE

\* the value of authorised after a successful authoriseRemember
AuthorisedAfter == TRUE

\* len(plaintext) > 0: deliver or abort
DeliverPlaintext(r, auth) ==
    IF r.plaintext = ""
    THEN UNCHANGED << stdOutChan, exit, diag >>
    ELSE IF DeliverAllowed(r.encrypted, auth)
    THEN /\ stdOutChan' = Append(stdOutChan, r.plaintext)
         /\ UNCHANGED << exit, diag >>
    ELSE /\ Abort("received unencrypted or unauthenticated text")
         /\ UNCHANGED stdOutChan

\* the branch "if !authorised" of mainLoop: record the fingerprint, call
\* authoriseRemember (which may save the contacts), set authorised, start
\* the -exec command and the local pumps, then handle the plaintext
AuthoriseBranch(r) ==
    LET a == AuthoriseRemember(r.key, contacts, contactsReverse,
                               anyone, remember, expect) IN
    /\ theirFingerprint' = r.key
    /\ authCalls' = authCalls + 1
    /\ IF a.verdict = "Reject"
       THEN /\ Abort(a.diag)
            /\ decision' = "Reject"
            /\ UNCHANGED << bookVars, authorised, notes, stdOutChan,
                            localPumpVars >>
       ELSE \E how \in (IF a.save THEN SaveOutcomes ELSE {"ok"}) :
            \E part \in (IF how = "write" THEN Partial(a.contacts) ELSE {{}}) :
            \E cmdOK \in (IF execCommand # "" THEN BOOLEAN ELSE {TRUE}) :
              LET s == IF a.save
                       THEN SaveContacts(a.contacts, store, how, part)
                       ELSE [ok |-> TRUE, store |-> store] IN
              /\ contacts' = a.contacts
              /\ contactsReverse' = a.contactsReverse
              /\ store' = s.store
              /\ notes' = notes \cup a.notes
              /\ IF ~s.ok
                 THEN /\ Abort("contacts file")
                      /\ decision' = "SaveFailed"
                      /\ UNCHANGED << storeWrites, authorised, stdOutChan,
                                      localPumpVars >>
                 ELSE /\ storeWrites' = storeWrites + (IF a.save THEN 1 ELSE 0)
                      /\ decision' = "Allow"
                      /\ authorised' = AuthorisedAfter
                      /\ IF ~cmdOK
                         THEN /\ Abort("exec")
                              /\ UNCHANGED << stdOutChan, localPumpVars >>
                         ELSE /\ cmdStarted' = (execCommand # "")
                              /\ readPump' = "running"
                              /\ writePump' = "running"
                              /\ DeliverPlaintext(r, authorised')

\* the peer's ending answered like a local one: nil queued, shutdown loop
ConversationEndedShutdown ==
    /\ pc' = "shutdown"
    /\ netOutChan' = Append(netOutChan, Nil)
    /\ UNCHANGED << exit, diag, bookVars, authVars, stdOutChan, localPumpVars >>

\* if state == otr.ConversationEnded { return }
ConversationEndedReturn ==
    /\ pc' = "returned"
    /\ UNCHANGED << netOutChan, exit, diag, bookVars, authVars, stdOutChan,
                    localPumpVars >>

\* the closed netInChan taken as the end of the session: mainLoop returns
ConnectionDroppedReturns == pc' = "returned" /\ UNCHANGED << exit, diag >>

\* if !alive { exitPrintf("Connection dropped! ...") }
ConnectionDropped ==
    /\ Abort(IF authorised THEN "connection dropped, maybe not deniable"
             ELSE "connection dropped")
    /\ UNCHANGED pc

\* case otrText, alive := <-netInChan
HandleNetIn ==
    /\ Running /\ pc = "loop"
    /\ netInChan # <<>> \/ netInClosed
    /\ Len(netOutChan) + 1 <= ChanCap /\ Len(stdOutChan) + 1 <= ChanCap
    /\ IF netInChan = <<>>
       THEN \* closed and drained
            /\ ConnectionDropped
            /\ UNCHANGED << netInChan, netOutChan, recvVars, bookVars,
                            authVars, stdOutChan, localPumpVars >>
       ELSE \E f \in Frames :
            LET r == Receive(f, convState, theirKey) IN
            /\ netInChan' = Tail(netInChan)
            /\ convState' = r.state
            /\ theirKey' = r.key
            /\ lastRecv' = r
            /\ IF r.err
               THEN /\ Abort("receive error")
                    /\ UNCHANGED << netOutChan, pc, bookVars, authVars,
                                    stdOutChan, localPumpVars >>
               ELSE IF r.change = "ConversationEnded"
               THEN ConversationEndedReturn
               ELSE /\ netOutChan' = send(netOutChan, r.toSend)
                    /\ UNCHANGED pc
                    /\ IF IsEncrypted(r.state)
                          /\ ContactChanged(authorised, theirFingerprint, r.key)
                       THEN /\ Abort("the contact changed mid-conversation")
                            /\ UNCHANGED << bookVars, authVars, stdOutChan,
                                            localPumpVars >>
                       ELSE IF IsEncrypted(r.state) /\ NeedsAuthorising(authorised)
                       THEN AuthoriseBranch(r)
                       ELSE /\ DeliverPlaintext(r, authorised)
                            /\ UNCHANGED << bookVars, authVars, localPumpVars >>
    /\ UNCHANGED << anyone, cfgVars, codecVars, pairVars, netInClosed, stdInVars, sigPending,
                    remotePumpVars, wire, localOut, framesIn, reads >>

\* a shutdown loop that still delivers what arrives
ShutdownLoopDelivers ==
    /\ Running /\ pc = "shutdown"
    /\ netInChan # <<>> \/ netInClosed
    /\ IF netInChan = <<>>
       THEN pc' = "returned" /\ UNCHANGED << netInChan, stdOutChan >>
       ELSE /\ netInChan' = Tail(netInChan)
            /\ stdOutChan' = Append(stdOutChan, "text")
            /\ UNCHANGED pc
    /\ UNCHANGED << anyone, cfgVars, codecVars, pairVars, bookVars, exit,
                    diag, engineVars, lastRecv, authVars, netInClosed,
                    netOutChan, stdInVars, sigPending,
                    localPumpVars, remotePumpVars, wire, localOut,
                    framesIn, reads >>

\* a shutdown loop that does not look at "alive": it never breaks
ShutdownLoopIgnoresClosure ==
    /\ Running /\ pc = "shutdown"
    /\ netInChan # <<>> \/ netInClosed
    /\ IF netInChan = <<>>
       THEN UNCHANGED << pc, netInChan >>
       ELSE netInChan' = Tail(netInChan) /\ UNCHANGED pc
    /\ UNCHANGED << anyone, cfgVars, codecVars, pairVars, bookVars, exit,
                    diag, engineVars, lastRecv, authVars, netInClosed,
                    netOutChan, stdInVars, stdOutChan, sigPending,
                    localPumpVars, remotePumpVars, wire, localOut,
                    framesIn, reads >>

\* ShutdownLoop: frames are read and dropped until netInChan is closed
ShutdownLoop ==
    /\ Running /\ pc = "shutdown"
    /\ netInChan # <<>> \/ netInClosed
    /\ IF netInChan = <<>>
       THEN pc' = "returned" /\ UNCHANGED netInChan
       ELSE netInChan' = Tail(netInChan) /\ UNCHANGED pc
    /\ UNCHANGED << anyone, cfgVars, codecVars, pairVars, bookVars, exit, diag, engineVars, lastRecv, authVars,
                    netInClosed, netOutChan, stdInVars, stdOutChan, sigPending,
                    localPumpVars, remotePumpVars, wire, localOut,
                    framesIn, reads >>

\* mainLoop has returned: conn.Close() and main returns, exit status 0
Close ==
    /\ Running /\ pc = "returned"
    /\ exit' = "exit0"
    /\ UNCHANGED << anyone, cfgVars, codecVars, pairVars, bookVars, pc, diag, engineVars, lastRecv, authVars,
                    inChanVars, netOutChan, stdInVars, stdOutChan, sigPending,
                    localPumpVars, remotePumpVars, wire, localOut,
                    framesIn, reads >>

(* ------------------------------- pumps -------------------------------- *)
\* ReceiveForever: one decoded frame is put on netInChan
RecvFrame ==
    /\ Running /\ recvPump = "running"
    /\ framesIn < MaxFrames /\ Len(netInChan) < ChanCap
    /\ netInChan' = Append(netInChan, framesIn + 1)
    /\ framesIn' = framesIn + 1
    /\ UNCHANGED << anyone, cfgVars, codecVars, pairVars, bookVars, pc, exit, diag, engineVars, lastRecv,
                    authVars, netInClosed, netOutChan, stdInVars, stdOutChan,
                    sigPending, localPumpVars, remotePumpVars, wire, localOut,
                    reads >>

\* the pump closing netInChan and carrying on
RecvEOFKeepsRunning ==
    /\ Running /\ recvPump = "running"
    /\ netInClosed' = TRUE
    /\ UNCHANGED << anyone, cfgVars, codecVars, pairVars, bookVars, pc, exit,
                    diag, engineVars, lastRecv, authVars, netInChan,
                    netOutChan, stdInVars, stdOutChan, sigPending,
                    localPumpVars, remotePumpVars, wire, localOut, framesIn,
                    reads >>

\* ReceiveForever: end of stream, netInChan is closed and the pump returns
RecvEOF ==
    /\ Running /\ recvPump = "running"
    /\ netInClosed' = TRUE
    /\ recvPump' = "stopped"
    /\ UNCHANGED << anyone, cfgVars, codecVars, pairVars, bookVars, pc, exit, diag, engineVars, lastRecv,
                    authVars, netInChan, netOutChan, stdInVars, stdOutChan,
                    sigPending, localPumpVars, sendPump, sigPump, wire,
                    localOut, framesIn, reads >>

\* ReceiveForever: any other error of the decoder is fatal
RecvError ==
    /\ Running /\ recvPump = "running"
    /\ Abort("transport read error")
    /\ UNCHANGED << anyone, cfgVars, codecVars, pairVars, bookVars, pc, notes, engineVars, lastRecv,
                    authorised, theirFingerprint, authCalls, decision,
                    inChanVars, netOutChan, stdInVars, stdOutChan, sigPending,
                    localPumpVars, remotePumpVars, wire, localOut,
                    framesIn, reads >>

\* the pump taking the newest message of netOutChan instead of the oldest
SendFrameNewestFirst ==
    /\ Running /\ sendPump = "running" /\ netOutChan # <<>>
    /\ netOutChan' = SubSeq(netOutChan, 1, Len(netOutChan) - 1)
    /\ IF netOutChan[Len(netOutChan)] = Nil
       THEN sendPump' = "stopped" /\ UNCHANGED wire
       ELSE wire' = Append(wire, netOutChan[Len(netOutChan)])
            /\ UNCHANGED sendPump
    /\ UNCHANGED << anyone, cfgVars, codecVars, pairVars, bookVars, pc, exit, diag, engineVars, lastRecv,
                    authVars, inChanVars, stdInVars, stdOutChan, sigPending,
                    localPumpVars, recvPump, sigPump, localOut,
                    framesIn, reads >>

\* the pump dropping the nil message and carrying on
SendFrameSkipsSentinel ==
    /\ Running /\ sendPump = "running" /\ netOutChan # <<>>
    /\ netOutChan' = Tail(netOutChan)
    /\ IF Head(netOutChan) = Nil
       THEN UNCHANGED wire
       ELSE wire' = Append(wire, Head(netOutChan))
    /\ UNCHANGED << anyone, cfgVars, codecVars, pairVars, bookVars, pc, exit, diag,
                    engineVars, lastRecv, authVars, inChanVars, stdInVars,
                    stdOutChan, sigPending, localPumpVars, remotePumpVars,
                    localOut, framesIn, reads >>

\* SendForever: one message is taken from netOutChan; nil stops the pump,
\* anything else is written to the transport
SendFrame ==
    /\ Running /\ sendPump = "running" /\ netOutChan # <<>>
    /\ netOutChan' = Tail(netOutChan)
    /\ IF Head(netOutChan) = Nil
       THEN sendPump' = "stopped" /\ UNCHANGED wire
       ELSE wire' = Append(wire, Head(netOutChan)) /\ UNCHANGED sendPump
    /\ UNCHANGED << anyone, cfgVars, codecVars, pairVars, bookVars, pc, exit, diag, engineVars, lastRecv,
                    authVars, inChanVars, stdInVars, stdOutChan, sigPending,
                    localPumpVars, recvPump, sigPump, localOut,
                    framesIn, reads >>

\* SendForever: a failing write is fatal
SendError ==
    /\ Running /\ sendPump = "running" /\ netOutChan # <<>>
    /\ Head(netOutChan) # Nil
    /\ netOutChan' = Tail(netOutChan)
    /\ Abort("transport write error")
    /\ UNCHANGED << anyone, cfgVars, codecVars, pairVars, bookVars, pc, notes, engineVars, lastRecv,
                    authorised, theirFingerprint, authCalls, decision,
                    inChanVars, stdInVars, stdOutChan, sigPending,
                    localPumpVars, remotePumpVars, wire, localOut,
                    framesIn, reads >>

\* sigLoop: an interrupt arrives and is offered on the unbuffered sigTermChan
Interrupt ==
    /\ Running /\ sigPump = "running" /\ ~sigPending
    /\ sigPending' = TRUE
    /\ UNCHANGED << anyone, cfgVars, codecVars, pairVars, bookVars, pc, exit, diag, engineVars, lastRecv,
                    authVars, inChanVars, netOutChan, stdInVars, stdOutChan,
                    localPumpVars, remotePumpVars, wire, localOut,
                    framesIn, reads >>

\* what one read of the local source returns: text, or text with a 0 byte
Chunks == {"text", "nul"}

\* a read that is lost instead of being put on stdInChan
ReadChunkDropsRead ==
    /\ Running /\ readPump = "running"
    /\ reads < MaxReads
    /\ reads' = reads + 1
    /\ UNCHANGED << anyone, cfgVars, codecVars, pairVars, bookVars, pc, exit, diag,
                    engineVars, lastRecv, authVars, inChanVars, netOutChan,
                    stdInVars, stdOutChan, sigPending, localPumpVars,
                    remotePumpVars, wire, localOut, framesIn >>

\* readLoop: one read is put on stdInChan.  The source is os.Stdin or the
\* command's stdout pipe (an *os.File in both cases), whose Read turns
\* "no byte, no error" into io.EOF: a read without error has n > 0, and
\* the reads that return no byte are ReadEOF and ReadError below.
ReadChunk ==
    /\ Running /\ readPump = "running"
    /\ reads < MaxReads /\ Len(stdInChan) < ChanCap
    /\ \E m \in Chunks : stdInChan' = Append(stdInChan, m)
    /\ reads' = reads + 1
    /\ UNCHANGED << anyone, cfgVars, codecVars, pairVars, bookVars, pc, exit, diag, engineVars, lastRecv,
                    authVars, inChanVars, netOutChan, stdInClosed, stdOutChan,
                    sigPending, localPumpVars, remotePumpVars, wire, localOut,
                    framesIn >>

\* readLoop: io.EOF closes stdInChan and the pump returns
ReadEOF ==
    /\ Running /\ readPump = "running"
    /\ stdInClosed' = TRUE
    /\ readPump' = "stopped"
    /\ UNCHANGED << anyone, cfgVars, codecVars, pairVars, bookVars, pc, exit, diag, engineVars, lastRecv,
                    authVars, inChanVars, netOutChan, stdInChan, stdOutChan,
                    sigPending, writePump, cmdStarted, remotePumpVars, wire,
                    localOut, framesIn, reads >>

\* readLoop: any other read error is fatal
ReadError ==
    /\ Running /\ readPump = "running"
    /\ Abort("local read error")
    /\ UNCHANGED << anyone, cfgVars, codecVars, pairVars, bookVars, pc, notes, engineVars, lastRecv,
                    authorised, theirFingerprint, authCalls, decision,
                    inChanVars, netOutChan, stdInVars, stdOutChan, sigPending,
                    localPumpVars, remotePumpVars, wire, localOut,
                    framesIn, reads >>

\* writeLoop: one buffer is taken from stdOutChan and written to the sink
WriteChunk ==
    /\ Running /\ writePump = "running" /\ stdOutChan # <<>>
    /\ stdOutChan' = Tail(stdOutChan)
    /\ localOut' = Append(localOut, Head(stdOutChan))
    /\ UNCHANGED << anyone, cfgVars, codecVars, pairVars, bookVars, pc, exit, diag, engineVars, lastRecv,
                    authVars, inChanVars, netOutChan, stdInVars, sigPending,
                    localPumpVars, remotePumpVars, wire, framesIn, reads >>

\* writeLoop: a failing write is fatal
WriteError ==
    /\ Running /\ writePump = "running" /\ stdOutChan # <<>>
    /\ stdOutChan' = Tail(stdOutChan)
    /\ Abort("local write error")
    /\ UNCHANGED << anyone, cfgVars, codecVars, pairVars, bookVars, pc, notes, engineVars, lastRecv,
                    authorised, theirFingerprint, authCalls, decision,
                    inChanVars, netOutChan, stdInVars, sigPending,
                    localPumpVars, remotePumpVars, wire, localOut,
                    framesIn, reads >>

(* ---------------------------- specification --------------------------- *)
Next ==
    \/ UseKey
    \/ LoadContacts
    \/ ParseConversationFlags
    \/ Connect
    \/ MainLoopStart
    \/ HandleSignal
    \/ HandleStdIn
    \/ HandleNetIn
    \/ ShutdownLoop
    \/ Close
    \/ RecvFrame
    \/ RecvEOF
    \/ RecvError
    \/ SendFrame
    \/ SendError
    \/ Interrupt
    \/ ReadChunk
    \/ ReadEOF
    \/ ReadError
    \/ WriteChunk
    \/ WriteError

Spec == Init /\ [][Next]_vars

\* the main goroutine and the arrival of frames alone, from every command
\* line and contacts file: the runs that decide what authoriseRemember does
\* the whole program, started with -remember
SpecRemember == InitRemember /\ [][Next]_vars

\* one session (no -anyone, no -exec) in which the goroutine of mainLoop,
\* whenever it can take a step of its shutdown loop, is eventually scheduled
InitLive ==
    /\ anyone = FALSE
    /\ remember = ""
    /\ expect = ""
    /\ execCommand = ""
    /\ store = [exists |-> TRUE, tab |-> [n \in {"alice"} |-> "AA11"]]
    /\ Fresh
    /\ CodecIdle
    /\ PairIdle

SpecLive == InitLive /\ [][Next]_vars /\ WF_vars(ShutdownLoop)

NextAuth ==
    \/ UseKey
    \/ LoadContacts
    \/ ParseConversationFlags
    \/ Connect
    \/ MainLoopStart
    \/ RecvFrame
    \/ HandleNetIn

SpecAuth == InitAuth /\ [][NextAuth]_vars

TypeOK ==
    /\ exit \in {"running", "exit0", "exit1"}
    /\ pc \in {"useKey", "loadContacts", "parseFlags", "connect", "mainLoop",
               "loop", "shutdown", "returned"}
    /\ convState \in {"plaintext", "encrypted", "finished"}
    /\ authorised \in BOOLEAN
    /\ decision \in {"none", "Allow", "Reject", "SaveFailed"}

(* ---------------------------- the frame codec ------------------------- *)
\* longest frame given to Encode, and most frames in one run
MaxFrameLen == 2
MaxCodecFrames == 2

\* the bytes of the model: two payload bytes and the newline
Bytes == {"a", "b", "nl"}

\* var nl = []byte("\n"): the delimiter mainLoop gives to both ends
Delimiter == << "nl" >>

\* the sequences over S of length up to n
BoundedSeq(S, n) == UNION { [1..k -> S] : k \in 0..n }

\* d occurs in s at offset n (counted from 0)
OccursAt(s, d, n) ==
    /\ n + Len(d) <= Len(s)
    /\ \A j \in 1..Len(d) : s[n + j] = d[j]

\* bytes.Index(s, d): the offset of the first occurrence of d in s, or -1
Index(s, d) ==
    IF \E n \in 0..Len(s) : OccursAt(s, d, n)
    THEN CHOOSE n \in 0..Len(s) :
            /\ OccursAt(s, d, n)
            /\ \A k \in 0..(n - 1) : ~OccursAt(s, d, k)
    ELSE -1

\* the frames callers may give to Encode: no delimiter inside
DelimiterFree ==
    { x \in BoundedSeq(Bytes, MaxFrameLen) : Index(x, Delimiter) = -1 }

\* the delimiter left off
EncodeBare(data) == data

\* DelimitedEncoder.Encode: what is written for one frame
Encode(data) == data \o Delimiter

\* Decode, lines 97-103, with the delimiter found at offset n: the frame
\* returned and the queue kept
DecodeBuf(q, n) == SubSeq(q, 1, n)

\* the queue cut at the match instead of after the delimiter
DecodeRestFromMatch(q, n) == SubSeq(q, n + 1, Len(q))

DecodeRest(q, n) ==
    IF Len(q) = n + Len(Delimiter)
    THEN << >>
    ELSE SubSeq(q, n + Len(Delimiter) + 1, Len(q))

\* a run of the codec alone: any list of delimiter-free frames
InitCodec ==
    /\ anyone = FALSE
    /\ remember = ""
    /\ expect = ""
    /\ execCommand = ""
    /\ store = NoStore
    /\ Fresh
    /\ codecFrames \in BoundedSeq(DelimiterFree, MaxCodecFrames)
    /\ encCount = 0
    /\ stream = <<>>
    /\ streamClosed = FALSE
    /\ received = <<>>
    /\ queue = <<>>
    /\ decoded = <<>>
    /\ decErr = ""
    /\ PairIdle

\* EncodeForever, one iteration: the next frame is encoded and written
EncodeFrame ==
    /\ encCount < Len(codecFrames) /\ ~streamClosed
    /\ stream' = stream \o Encode(codecFrames[encCount + 1])
    /\ encCount' = encCount + 1
    /\ UNCHANGED << sessionVars, pairVars, codecFrames, streamClosed, received, queue,
                    decoded, decErr >>

\* the writer closes the transport after its last frame
CloseStream ==
    /\ encCount = Len(codecFrames) /\ ~streamClosed
    /\ streamClosed' = TRUE
    /\ UNCHANGED << sessionVars, pairVars, codecFrames, encCount, stream, received,
                    queue, decoded, decErr >>

\* Decode, lines 82-95: no delimiter in the queue, Read returns the next n
\* bytes of the stream (any n from 1 to what is there) and they are appended
DecodeRead ==
    /\ decErr = "" /\ Index(queue, Delimiter) = -1
    /\ stream # <<>>
    /\ \E n \in 1..Len(stream) :
        /\ queue' = queue \o SubSeq(stream, 1, n)
        /\ received' = received \o SubSeq(stream, 1, n)
        /\ stream' = SubSeq(stream, n + 1, Len(stream))
    /\ UNCHANGED << sessionVars, pairVars, codecFrames, encCount, streamClosed, decoded,
                    decErr >>

\* the test of the queue left out: io.EOF is passed on as it is
EofErrorAlwaysClean(q) == "EOF"

\* if err == io.EOF && len(d.queue) > 0 { "Stream closed mid-message" };
\* DecodeForever closes the channel on io.EOF and calls exitError otherwise
EofError(q) == IF Len(q) > 0 THEN "mid-message" ELSE "EOF"

\* Decode, lines 88-93: Read reports io.EOF; with bytes left in the queue
\* the error is "Stream closed mid-message"
DecodeEOF ==
    /\ decErr = "" /\ Index(queue, Delimiter) = -1
    /\ stream = <<>> /\ streamClosed
    /\ decErr' = EofError(queue)
    /\ UNCHANGED << sessionVars, pairVars, codecFrames, encCount, stream, streamClosed,
                    received, queue, decoded >>

\* Decode, lines 82-84 and 97-104: the delimiter is in the queue, the bytes
\* before it are returned as one frame
DecodeYield ==
    /\ decErr = "" /\ Index(queue, Delimiter) # -1
    /\ decoded' = Append(decoded, DecodeBuf(queue, Index(queue, Delimiter)))
    /\ queue' = DecodeRest(queue, Index(queue, Delimiter))
    /\ UNCHANGED << sessionVars, pairVars, codecFrames, encCount, stream, streamClosed,
                    received, decErr >>

NextCodec ==
    \/ EncodeFrame
    \/ CloseStream
    \/ DecodeRead
    \/ DecodeEOF
    \/ DecodeYield

SpecCodec == InitCodec /\ [][NextCodec]_vars

\* a writer that dies in its last frame: the frame's bytes are written but
\* not the delimiter after them, and the transport is closed
EncodeTruncated ==
    /\ encCount + 1 = Len(codecFrames) /\ ~streamClosed
    /\ stream' = stream \o SubSeq(Encode(codecFrames[encCount + 1]), 1,
                                  Len(Encode(codecFrames[encCount + 1]))
                                    - Len(Delimiter))
    /\ encCount' = encCount + 1
    /\ streamClosed' = TRUE
    /\ UNCHANGED << sessionVars, pairVars, codecFrames, received, queue, decoded,
                    decErr >>

\* the codec with a peer that may cut its last frame short
NextTrunc ==
    \/ EncodeFrame
    \/ EncodeTruncated
    \/ CloseStream
    \/ DecodeRead
    \/ DecodeEOF
    \/ DecodeYield

SpecTrunc == InitCodec /\ [][NextTrunc]_vars

\* Decode, lines 86-93: Read returns the last bytes of the stream together
\* with io.EOF (n > 0 and err == io.EOF, which io.Reader allows); Decode
\* looks at err first and returns without appending input[:n] to the queue
DecodeReadEOF ==
    /\ decErr = "" /\ Index(queue, Delimiter) = -1
    /\ stream # <<>> /\ streamClosed
    /\ received' = received \o stream
    /\ stream' = <<>>
    /\ decErr' = EofError(queue)
    /\ UNCHANGED << sessionVars, pairVars, codecFrames, encCount, streamClosed,
                    queue, decoded >>

\* the codec reading from a source that may report the end of the stream
\* in the read that returns the last bytes
NextEofData ==
    \/ EncodeFrame
    \/ CloseStream
    \/ DecodeRead
    \/ DecodeReadEOF
    \/ DecodeEOF
    \/ DecodeYield

SpecEofData == InitCodec /\ [][NextEofData]_vars

(* ------------------------------ properties ---------------------------- *)
\* a step of mainLoop that takes a frame from netInChan and hands it to
\* conv.Receive; lastRecv' is what Receive returned
RecvStep == pc = "loop" /\ netInChan # <<>> /\ netInChan' = Tail(netInChan)

\* Receive returned no error and did not report the end of the conversation:
\* mainLoop goes on to line 201
Processed(r) == ~r.err /\ r.change # "ConversationEnded"

\* a step of mainLoop that takes a message from stdInChan
StdInStep == pc = "loop" /\ stdInChan # <<>> /\ stdInChan' = Tail(stdInChan)

UnauthText == "received unencrypted or unauthenticated text"

\* C1: plaintext returned by Receive is put on stdOutChan only when the
\* session was already authorised and Receive reported the frame encrypted;
\* non-empty plaintext of a frame that is not encrypted, or that arrives
\* before authorisation, ends the process with status 1 and neither reaches
\* stdOutChan nor the local sink.
C1_NoEarlyPlaintext ==
    [][ /\ Len(stdOutChan') > Len(stdOutChan)
            => /\ RecvStep
               /\ authorised
               /\ lastRecv'.encrypted
               /\ lastRecv'.plaintext # ""
               /\ stdOutChan' = Append(stdOutChan, lastRecv'.plaintext)
        /\ (RecvStep /\ lastRecv'.plaintext # ""
              /\ ~(authorised /\ lastRecv'.encrypted))
            => /\ exit' = "exit1"
               /\ stdOutChan' = stdOutChan
               /\ localOut' = localOut ]_vars

\* an authorised session has received a plaintext frame and aborted
C1_Witness ==
    /\ exit = "exit1" /\ diag = UnauthText
    /\ authorised
    /\ lastRecv.plaintext # "" /\ ~lastRecv.encrypted
    /\ stdOutChan = <<>> /\ localOut = <<>>

\* C2: readLoop, writeLoop and the -exec command exist only after
\* authoriseRemember has allowed the peer; none of them exists while the
\* session is unauthorised or after a rejection.
C2_PumpsOnlyAfterAllow ==
    (readPump # "off" \/ writePump # "off" \/ cmdStarted)
        => (decision = "Allow" /\ authorised)

\* both local pumps and the -exec command run in an allowed session
C2_Witness ==
    /\ readPump = "running" /\ writePump = "running" /\ cmdStarted
    /\ decision = "Allow" /\ Running

\* the places of a frame sequence that hold data of the local source
LocalData(q) == { i \in 1..Len(q) : q[i].body \in Chunks }

\* C3: whenever mainLoop is about to hand a buffer of the local read pump to
\* conv.Send, the session is authorised and the engine is in the encrypted
\* state; every frame made from such a buffer, queued or written to the
\* transport, is an encrypted one.
C3_LocalDataOnlyEncrypted ==
    /\ (Running /\ pc = "loop" /\ stdInChan # <<>>
          /\ Head(stdInChan) \in Chunks /\ ~HasNul(Head(stdInChan)))
        => (authorised /\ convState = "encrypted")
    /\ \A i \in LocalData(netOutChan) : netOutChan[i].enc
    /\ \A i \in LocalData(wire) : wire[i].enc

\* a buffer read from the local source has gone through Send to the transport
C3_Witness ==
    /\ \E i \in 1..Len(wire) : wire[i] = [enc |-> TRUE, body |-> "text"]
    /\ reads = 1 /\ authorised

\* C4: authoriseRemember is called at most once, and it has been called
\* exactly when some frame handed to Receive has left the engine encrypted:
\* the call is made in the step that handles the first such frame and in no
\* later one.
C4_AuthorisedOnce ==
    authCalls = (IF lastRecv.state = "plaintext" THEN 0 ELSE 1)

\* a second key exchange was processed in an authorised session
C4_Witness ==
    /\ authCalls = 1 /\ Running /\ pc = "loop" /\ authorised
    /\ framesIn = 2 /\ netInChan = <<>>
    /\ lastRecv.change = "NewKeys"

\* C5: in an authorised session the recorded fingerprint never changes, and
\* a processed frame that leaves the engine with another peer key ends the
\* process with status 1, whether or not that key is a known contact's.
C5_IdentityStable ==
    [][ authorised
          => /\ theirFingerprint' = theirFingerprint
             /\ (RecvStep /\ Processed(lastRecv')
                   /\ theirKey' # theirFingerprint)
                 => /\ exit' = "exit1"
                    /\ diag' = "the contact changed mid-conversation"
                    /\ stdOutChan' = stdOutChan ]_vars

\* the session was aborted on a change to the key of another known contact
C5_Witness ==
    /\ exit = "exit1" /\ diag = "the contact changed mid-conversation"
    /\ authorised /\ theirKey # theirFingerprint
    /\ theirKey \in DOMAIN contactsReverse
    /\ theirFingerprint \in DOMAIN contactsReverse

(* ---------------------- the authorisation matrix ---------------------- *)
\* the step of mainLoop in which authoriseRemember is called; the
\* fingerprint passed is theirFingerprint', the book before it is contacts
\* and contactsReverse
AuthStep == authCalls' = authCalls + 1

KnownBefore == theirFingerprint' \in DOMAIN contactsReverse

BookUnchanged == contacts' = contacts /\ contactsReverse' = contactsReverse

StoreUnchanged == store' = store /\ storeWrites' = storeWrites

\* C6: with none of -anyone, -remember, -expect the peer is allowed exactly
\* when its fingerprint is a key of contactsReverse; otherwise the process
\* ends with status 1; either way both maps and the contacts file stay as
\* they were.
C6_DefaultMode ==
    [][ (AuthStep /\ ~anyone /\ remember = "" /\ expect = "")
          => /\ decision' = "Allow" <=> KnownBefore
             /\ ~KnownBefore => (decision' = "Reject" /\ exit' = "exit1")
             /\ BookUnchanged
             /\ StoreUnchanged ]_vars

\* a known contact was allowed in default mode
C6_Witness ==
    /\ ~anyone /\ remember = "" /\ expect = ""
    /\ decision = "Allow" /\ authorised /\ Running
    /\ theirFingerprint \in DOMAIN contactsReverse
    /\ contactsReverse[theirFingerprint] \in Names

\* C7: with -expect NAME the peer is allowed exactly when its fingerprint is
\* known and contactsReverse binds it to NAME; an unknown fingerprint and a
\* fingerprint bound to another name end the process with status 1; the maps
\* and the contacts file are never modified during the session.
C7_ExpectMode ==
    [][ /\ (AuthStep /\ expect # "")
            => /\ decision' = "Allow"
                   <=> (KnownBefore
                          /\ contactsReverse[theirFingerprint'] = expect)
               /\ decision' # "Allow"
                   => (decision' = "Reject" /\ exit' = "exit1")
        /\ (expect # "" /\ pc \in {"loop", "shutdown", "returned"})
            => (BookUnchanged /\ StoreUnchanged) ]_vars

\* a known contact other than the expected one was rejected
C7_Witness ==
    /\ expect # "" /\ decision = "Reject" /\ exit = "exit1"
    /\ diag = "expected contact is another"
    /\ theirFingerprint \in DOMAIN contactsReverse
    /\ contactsReverse[theirFingerprint] \in Names \ {expect}

\* C8: with -anyone and no -remember every peer is allowed, known or not,
\* and both maps and the contacts file stay as they were.
C8_AnyoneMode ==
    [][ (AuthStep /\ anyone /\ remember = "")
          => /\ decision' = "Allow"
             /\ BookUnchanged
             /\ StoreUnchanged ]_vars

\* an unknown peer was allowed under -anyone
C8_Witness ==
    /\ anyone /\ remember = "" /\ decision = "Allow" /\ authorised /\ Running
    /\ theirFingerprint \notin DOMAIN contactsReverse

\* the maps gain the binding remember <-> fingerprint and nothing else
GainsBinding ==
    /\ contacts' = Put(contacts, remember, theirFingerprint')
    /\ contactsReverse' = Put(contactsReverse, theirFingerprint', remember)
    /\ remember \notin DOMAIN contacts
    /\ theirFingerprint' \notin DOMAIN contactsReverse

\* C9, unconditional form: with -remember NAME and an unknown fingerprint the peer is
\* allowed, the maps gain exactly NAME <-> fingerprint, and the contacts file
\* is written exactly once in the session.
C9_Unconditional ==
    [][ (AuthStep /\ remember # "" /\ ~KnownBefore)
          => /\ decision' = "Allow"
             /\ GainsBinding
             /\ store' = [exists |-> TRUE, tab |-> StoreImage(contacts')]
             /\ storeWrites' = storeWrites + 1 ]_vars

\* C9: with -remember NAME and an unknown fingerprint the maps gain exactly
\* NAME <-> fingerprint and saveContacts is called; when the write succeeds
\* the peer is allowed and the contacts file holds every entry of contacts
\* but "me"; when it fails the process ends with status 1 and nobody is
\* allowed.  No other step of the session writes the contacts file.
C9_RememberUnknown ==
    [][ /\ (AuthStep /\ remember # "" /\ ~KnownBefore)
            => /\ GainsBinding
               /\ decision' \in {"Allow", "SaveFailed"}
               /\ decision' = "Allow"
                   => /\ store' = [exists |-> TRUE,
                                   tab |-> StoreImage(contacts')]
                      /\ storeWrites' = storeWrites + 1
               /\ decision' = "SaveFailed"
                   => /\ exit' = "exit1"
                      /\ ~authorised'
                      /\ storeWrites' = storeWrites
        /\ (pc \in {"loop", "shutdown", "returned"} /\ ~AuthStep)
            => StoreUnchanged ]_vars

\* an unknown peer was remembered and the contacts file holds the new entry
C9_Witness ==
    /\ remember # "" /\ decision = "Allow" /\ authorised /\ Running
    /\ "Remembering" \in notes
    /\ remember \in DOMAIN store.tab
    /\ store.tab[remember] = theirFingerprint
    /\ contactsReverse[theirFingerprint] = remember
    /\ Cardinality(DOMAIN store.tab) = 2

\* C10: with -remember NAME and a fingerprint already known, the peer is
\* allowed with a warning, both maps stay as they were (NAME gets no
\* binding) and the contacts file is not written.
C10_RememberKnown ==
    [][ (AuthStep /\ remember # "" /\ KnownBefore)
          => /\ decision' = "Allow"
             /\ "Warning" \in notes'
             /\ BookUnchanged
             /\ remember \notin DOMAIN contacts'
             /\ StoreUnchanged ]_vars

\* a known contact was allowed under -remember, with the warning
C10_Witness ==
    /\ remember # "" /\ decision = "Allow" /\ authorised /\ Running
    /\ "Warning" \in notes
    /\ contactsReverse[theirFingerprint] \in Names \ {remember}
    /\ remember \notin DOMAIN contacts

(* ------------------------ configuration conflicts --------------------- *)
\* the command line breaks one of the four rules, given the contact book as
\* loaded at startup
ConfigViolation ==
    \/ expect # "" /\ remember # ""
    \/ anyone /\ expect # ""
    \/ expect # "" /\ expect \notin DOMAIN contacts
    \/ remember # "" /\ remember \in DOMAIN contacts

\* nothing of the connection or of mainLoop exists
NothingStarted ==
    /\ sendPump = "off" /\ recvPump = "off" /\ sigPump = "off"
    /\ readPump = "off" /\ writePump = "off" /\ ~cmdStarted
    /\ wire = <<>> /\ framesIn = 0 /\ netInChan = <<>> /\ netOutChan = <<>>
    /\ authCalls = 0

\* C11: when the command line breaks one of the four configuration rules,
\* parseConversationFlags ends the process with status 1; the program never
\* gets to the connection attempt (pc = "connect") nor into mainLoop, and
\* the only way to the connection attempt is a parseConversationFlags that
\* found no violation.
C11_ConfigConflictFatal ==
    [][ /\ (pc = "parseFlags" /\ ConfigViolation)
            => (exit' = "exit1" /\ pc' = "parseFlags" /\ NothingStarted')
        /\ (pc' = "connect" /\ pc # "connect")
            => (pc = "parseFlags" /\ ~ConfigViolation /\ NothingStarted) ]_vars

\* -remember with a name the contacts file already holds ended the process
C11_Witness ==
    /\ exit = "exit1" /\ pc = "parseFlags"
    /\ remember # "" /\ expect = "" /\ remember \in DOMAIN contacts
    /\ diag = "can't re-remember a known contact"
    /\ NothingStarted

(* ------------------------------- ending ------------------------------- *)
\* mainLoop leaves its select loop by "break Loop"
LocalEnding == pc = "loop" /\ pc' = "shutdown"

\* mainLoop returned because the peer ended the conversation
PeerEnded == lastRecv.change = "ConversationEnded"

\* netInChan has been closed and drained
InboundClosed == netInClosed /\ netInChan = <<>>

\* C12: a locally triggered ending puts the messages of conv.End() on
\* netOutChan, then the nil message, in that step; from then on mainLoop puts
\* nothing more on netOutChan; it leaves the shutdown loop only by returning,
\* and only when netInChan is closed and drained; the process ends with
\* status 0 only after mainLoop returned, so after that closure.
C12_GracefulCloseOrder ==
    [][ /\ LocalEnding
            => netOutChan' = netOutChan \o End(convState).toSend \o << Nil >>
        /\ pc \in {"shutdown", "returned"}
            => \/ netOutChan' = netOutChan
               \/ netOutChan # <<>> /\ netOutChan' = Tail(netOutChan)
        /\ (pc = "shutdown" /\ pc' # "shutdown")
            => (pc' = "returned" /\ InboundClosed)
        /\ (exit = "running" /\ exit' = "exit0")
            => (pc = "returned" /\ (PeerEnded \/ InboundClosed)) ]_vars

\* the local source ended in an encrypted session, the disconnect message
\* went out, the peer closed, and the process ended with status 0
C12_Witness ==
    /\ exit = "exit0" /\ pc = "returned" /\ ~PeerEnded
    /\ authorised /\ stdInClosed /\ InboundClosed
    /\ \E i \in 1..Len(wire) : wire[i].body = "disconnect"
    /\ sendPump = "stopped" /\ netOutChan = <<>>

\* C13: when the process ends with status 0 after a locally triggered
\* ending, every termination message conv.End() returned has been written to
\* the transport: none is still waiting on netOutChan.
C13_TerminationFramesWritten ==
    (exit = "exit0" /\ ~PeerEnded)
        => \A i \in 1..Len(netOutChan) : netOutChan[i].body # "disconnect"

\* C14: when conv.Receive reports ConversationEnded, mainLoop returns in
\* that step: nothing is put on netOutChan (no termination message, no nil),
\* conv.End() is not called (the engine stays in the state Receive left it
\* in) and nothing is delivered; after the return nothing is put on
\* netOutChan either, and main ends the process without waiting for netInChan
\* to be closed.
C14_PeerEndedReturnsAtOnce ==
    [][ /\ (RecvStep /\ ~lastRecv'.err /\ lastRecv'.change = "ConversationEnded")
            => /\ pc' = "returned"
               /\ netOutChan' = netOutChan
               /\ convState' = lastRecv'.state
               /\ stdOutChan' = stdOutChan
               /\ exit' = "running"
        /\ (pc = "returned" /\ PeerEnded)
            => /\ pc' = "returned"
               /\ netOutChan' = netOutChan
                    \/ (netOutChan # <<>> /\ netOutChan' = Tail(netOutChan))
               /\ convState' = convState ]_vars

\* the peer ended the conversation and the process ended with status 0 while
\* netInChan was still open
C14_Witness ==
    /\ exit = "exit0" /\ pc = "returned" /\ PeerEnded
    /\ ~netInClosed /\ sendPump = "running" /\ convState = "finished"
    /\ \A i \in 1..Len(wire) : wire[i].body # "disconnect"

\* the step in which the signal offered by sigLoop is taken
SignalTaken == sigPending /\ ~sigPending'

\* C15: the signal offered on sigTermChan is taken only by the select of
\* mainLoop (before or after authorisation); that step is a local ending
\* (termination messages, nil, shutdown loop), it does not end the process,
\* and it stops no pump: every goroutine is left as it was.
C15_InterruptEndsGracefully ==
    [][ SignalTaken
          => /\ pc = "loop" /\ LocalEnding
             /\ netOutChan' = netOutChan \o End(convState).toSend \o << Nil >>
             /\ exit' = "running" /\ exit = "running"
             /\ UNCHANGED << sendPump, recvPump, readPump, writePump, sigPump,
                             cmdStarted >> ]_vars

\* an interrupt before authorisation took the session to the shutdown loop
C15_Witness ==
    /\ pc = "shutdown" /\ Running /\ ~authorised /\ authCalls = 0
    /\ ~sigPending /\ ~stdInClosed
    /\ sendPump = "running" /\ recvPump = "running" /\ sigPump = "running"
    /\ netOutChan = << Nil >>

(* ----------------------------- binary input --------------------------- *)
\* a message with a 0 byte is at the head of stdInChan and mainLoop takes it
NulTaken == StdInStep /\ Head(stdInChan) = "nul"

\* C16: a message taken from stdInChan that holds a 0 byte is not passed to
\* conv.Send: the step puts on netOutChan only what the ending puts there
\* (the messages of conv.End() and nil), and no message on netOutChan or on
\* the transport ever carries such a payload.
C16_NulNeverSent ==
    [][ /\ NulTaken
            => netOutChan' = netOutChan \o End(convState).toSend \o << Nil >>
        /\ \A i \in 1..Len(netOutChan') : netOutChan'[i].body # "nul"
        /\ \A i \in 1..Len(wire') : wire'[i].body # "nul" ]_vars

\* a read with a 0 byte was taken from stdInChan and rejected
C16_Witness ==
    /\ "OnlyText" \in notes /\ reads > 0 /\ authorised
    /\ pc = "shutdown" /\ Running
    /\ stdInChan = <<>>

\* C17: a message with a 0 byte on stdInChan is fatal: the step that takes it
\* ends the process with status 1.
C17_NulIsFatal ==
    [][ NulTaken => exit' = "exit1" ]_vars

(* ------------------------------- ordering ----------------------------- *)
\* q2 is q with messages added at its end
Extends(q, q2) == Len(q2) > Len(q) /\ SubSeq(q2, 1, Len(q)) = q

\* C18: netOutChan changes only by mainLoop adding messages at its end or by
\* the write pump taking its head, and the transport grows only by the
\* message the write pump took; so what is written is always a prefix of
\* what was queued, in the same order.  netInChan holds the frames in the
\* order the decoder yielded them (consecutive numbers) and changes only by
\* the decoder adding the next frame at its end or by its head being taken.
C18_QueuesAreFifo ==
    [][ /\ wire' # wire
            => /\ netOutChan # <<>>
               /\ wire' = Append(wire, Head(netOutChan))
               /\ netOutChan' = Tail(netOutChan)
        /\ netOutChan' # netOutChan
            => \/ netOutChan # <<>> /\ netOutChan' = Tail(netOutChan)
               \/ Extends(netOutChan, netOutChan')
        /\ netInChan' # netInChan
            => \/ netInChan # <<>> /\ netInChan' = Tail(netInChan)
               \/ netInChan' = Append(netInChan, framesIn + 1)
                    /\ framesIn' = framesIn + 1
        /\ \A i \in 1..Len(netInChan) :
              netInChan[i] = framesIn - Len(netInChan) + i ]_vars

\* two different messages were queued and written in the order queued, and
\* every frame the decoder yielded has been taken
C18_Witness ==
    /\ Len(wire) >= 2 /\ wire[1] # wire[2]
    /\ wire[1] = [enc |-> FALSE, body |-> "query"]
    /\ framesIn = MaxFrames /\ netInChan = <<>> /\ Running

(* ------------------------- round trip of frames ---------------------- *)
\* the bytes on the transport for a list of frames: each frame followed by
\* the delimiter
RECURSIVE OnTheWire(_)
OnTheWire(fs) ==
    IF fs = <<>> THEN <<>>
    ELSE Head(fs) \o Delimiter \o OnTheWire(Tail(fs))

IsPrefix(p, s) == Len(p) <= Len(s) /\ SubSeq(s, 1, Len(p)) = p

\* Decode has nothing to return from the bytes it was given
DecoderDrained == Index(queue, Delimiter) = -1

\* C19: for one frame x without the delimiter (the empty frame included),
\* decoding what Encode wrote for x returns x as one frame and nothing else:
\* Decode returns x once every byte written has been read, leaves an empty
\* queue, and then ends with io.EOF, never with an error.
C19_RoundTrip ==
    Len(codecFrames) = 1
        => /\ decoded = <<>> \/ decoded = codecFrames
           /\ decErr \in {"", "EOF"}
           /\ decErr = "EOF" => decoded = codecFrames
           /\ (encCount = 1 /\ stream = <<>> /\ DecoderDrained)
                => (decoded = codecFrames /\ queue = <<>>)

\* the empty frame went through the codec
C19_Witness ==
    /\ codecFrames = << <<>> >>
    /\ received = Delimiter
    /\ decoded = codecFrames /\ queue = <<>> /\ decErr = "EOF"

\* C20: for every list of delimiter-free frames and every way the reads cut
\* the bytes written, Decode returns the frames in order (what it has
\* returned is always a prefix of the list), the queue holds exactly the
\* bytes read so far that belong to no returned frame, and once all bytes
\* have been read and Decode has nothing left to return, every frame was
\* returned; decoding then ends with io.EOF.
C20_FragmentationIndependent ==
    /\ IsPrefix(decoded, codecFrames)
    /\ OnTheWire(decoded) \o queue = received
    /\ decErr \in {"", "EOF"}
    /\ (encCount = Len(codecFrames) /\ stream = <<>> /\ DecoderDrained)
          => decoded = codecFrames
    /\ decErr = "EOF" => (decoded = codecFrames /\ queue = <<>>)

\* the first of two frames was returned while a read had cut the second one
C20_Witness ==
    /\ Len(codecFrames) = 2 /\ codecFrames[1] # codecFrames[2]
    /\ Len(codecFrames[2]) = 2
    /\ Len(decoded) = 1 /\ decoded[1] = codecFrames[1]
    /\ Len(queue) = 1 /\ queue[1] = codecFrames[2][1]

(* ------------------------------ truncation ---------------------------- *)
\* the transport was closed without the delimiter of the last frame
Truncated == streamClosed /\ received \o stream # OnTheWire(codecFrames)

\* the frames before the last one
AllButLast(fs) == SubSeq(fs, 1, Len(fs) - 1)

\* decoding has ended: cleanly (io.EOF, the channel is closed) exactly when
\* the queue is empty, otherwise with "Stream closed mid-message"
EndsCleanIffEmpty ==
    decErr # "" => /\ decErr = "EOF" <=> queue = <<>>
                   /\ decErr = "mid-message" <=> queue # <<>>

\* C21 as stated: decoding ends cleanly exactly when the queue is empty, and
\* for every x a stream closed after x without its delimiter ends with
\* "Stream closed mid-message", x never being returned.
C21_ForEveryFrame ==
    /\ EndsCleanIffEmpty
    /\ IsPrefix(decoded, codecFrames)
    /\ Truncated => Len(decoded) < Len(codecFrames)
    /\ (Truncated /\ decErr # "") => decErr = "mid-message"

\* C21: decoding ends cleanly exactly when the queue is empty; a stream
\* closed after a non-empty x without its delimiter ends with "Stream closed
\* mid-message" and x is never returned; when x is empty nothing of it is on
\* the transport, and decoding ends cleanly after the frames before it, x
\* not being returned either.
C21_TruncationDetected ==
    /\ EndsCleanIffEmpty
    /\ IsPrefix(decoded, codecFrames)
    /\ Truncated => Len(decoded) < Len(codecFrames)
    /\ (Truncated /\ decErr # "")
          => /\ decoded = AllButLast(codecFrames)
             /\ IF codecFrames[Len(codecFrames)] # <<>>
                THEN decErr = "mid-message"
                        /\ queue = codecFrames[Len(codecFrames)]
                ELSE decErr = "EOF"

\* a frame was complete, the next one lost its delimiter: decoding ended with
\* the error and the bytes of the cut frame in the queue
C21_Witness ==
    /\ Len(codecFrames) = 2 /\ codecFrames[2] # <<>>
    /\ Truncated /\ decErr = "mid-message"
    /\ decoded = << codecFrames[1] >> /\ queue = codecFrames[2]

C23_LifecycleForward ==
    [][ /\ authorised => authorised'
        /\ pc = "loop" => pc' \in {"loop", "shutdown", "returned"}
        /\ pc = "shutdown" => pc' \in {"shutdown", "returned"}
        /\ pc = "returned" => pc' = "returned"
        /\ exit = "exit1" => UNCHANGED vars
        /\ exit = "exit0" => UNCHANGED vars ]_vars

\* an authorised session was ending when an error ended the process
C23_Witness ==
    /\ exit = "exit1" /\ authorised /\ pc = "shutdown"
    /\ diag = "transport write error"
    /\ stdOutChan # <<>> /\ netOutChan # <<>>

ReadDone == reads' = reads + 1

\* the read pump saw the end of the local source, or a read error
ReadEnded ==
    \/ stdInClosed' # stdInClosed
    \/ (diag' = "local read error" /\ diag' # diag)

Dequeued ==
    /\ sendPump = "running" /\ netOutChan # <<>>
    /\ netOutChan' = Tail(netOutChan)

\* C26: a message other than nil that the remote write pump takes from
\* netOutChan is the next one written to the transport, unless the write
\* fails, which ends the process with status 1; taking nil stops the pump
\* without a write; nothing reaches the transport in any other way, and
\* nothing once the pump has stopped; the pump stops only when mainLoop is
\* past its loop, in the shutdown it entered by queueing nil.
C26_RemoteWritePump ==
    [][ /\ (Dequeued /\ Head(netOutChan) # Nil)
            => \/ wire' = Append(wire, Head(netOutChan))
                    /\ sendPump' = "running" /\ exit' = exit
               \/ wire' = wire /\ exit' = "exit1"
                    /\ diag' = "transport write error"
        /\ (Dequeued /\ Head(netOutChan) = Nil)
            => (sendPump' = "stopped" /\ wire' = wire /\ exit' = exit)
        /\ wire' # wire => (Dequeued /\ Head(netOutChan) # Nil)
        /\ sendPump' # sendPump
            => \/ sendPump' = "running" /\ pc = "mainLoop"
               \/ /\ sendPump' = "stopped" /\ Dequeued
                  /\ Head(netOutChan) = Nil
                  /\ pc \in {"shutdown", "returned"}
        /\ sendPump = "stopped"
            => (sendPump' = "stopped" /\ wire' = wire
                  /\ Len(netOutChan') >= Len(netOutChan)) ]_vars

\* two frames were written in the order they were queued, then nil stopped
\* the pump; mainLoop is in its shutdown
C26_Witness ==
    /\ sendPump = "stopped" /\ Len(wire) >= 3 /\ netOutChan = <<>>
    /\ wire[1].body = "query" /\ wire[Len(wire)].body = "disconnect"
    /\ pc = "shutdown" /\ Running

(* ---------------------------- engine errors --------------------------- *)
\* conv.Receive returned an error for the frame mainLoop took
ReceiveFailed == RecvStep /\ lastRecv'.err

\* conv.Send returned an error for the message mainLoop took
SendFailed ==
    /\ StdInStep /\ Head(stdInChan) # "nul"
    /\ Send(Head(stdInChan), convState).err

\* the engine is never in its finished state when mainLoop selects: Send is
\* only called in the plaintext and encrypted states
SendNeverFails == pc = "loop" => convState \in {"plaintext", "encrypted"}

DroppedDiags == {"connection dropped", "connection dropped, maybe not deniable"}

\* C28: while mainLoop is in its select loop (authorised or not) a closed
\* and drained netInChan never makes it return or end with status 0: the
\* step that takes the closure ends the process with status 1 and the
\* "Connection dropped!" diagnostic (with the deniability warning exactly
\* when authorised); mainLoop returns on a closed netInChan only from the
\* shutdown loop, and only that way does the closure lead to status 0.
C28_DropBeforeEndingFatal ==
    [][ /\ (pc = "loop" /\ InboundClosed)
            => (pc' \in {"loop", "shutdown"} /\ exit' # "exit0")
        /\ (diag' \in DroppedDiags /\ diag' # diag)
            => /\ pc = "loop" /\ pc' = "loop" /\ InboundClosed
               /\ exit' = "exit1"
               /\ authorised <=> diag' = "connection dropped, maybe not deniable"
        /\ (pc = "shutdown" /\ InboundClosed)
            => (exit' = "exit1" => diag' \notin DroppedDiags)
        /\ (pc # "returned" /\ pc' = "returned" /\ InboundClosed)
            => (pc = "shutdown" /\ exit' = "running") ]_vars

\* the peer closed the connection of an authorised session whose local side
\* had not ended: status 1, with the deniability warning
C28_Witness ==
    /\ exit = "exit1" /\ diag = "connection dropped, maybe not deniable"
    /\ authorised /\ pc = "loop" /\ InboundClosed /\ ~stdInClosed

(* --------------------------- the contact book ------------------------- *)
\* every name of c has a fingerprint that cr maps back to that name
MapsBack(c, cr) ==
    \A n \in DOMAIN c : c[n] \in DOMAIN cr /\ cr[c[n]] = n

InSession == pc \in {"loop", "shutdown", "returned"}

\* C30: once mainLoop runs, the two maps and the contacts file change in no
\* step but the one that calls authoriseRemember; that step happens once,
\* in the select loop, before the session is authorised; nothing handled
\* once the session is authorised, or once mainLoop has left its loop
\* (a local message, a frame, a signal, the shutdown loop, the pumps'
\* steps), changes them.
C30_BookOnlyInAuthStep ==
    [][ /\ (InSession /\ ~AuthStep) => (BookUnchanged /\ StoreUnchanged)
        /\ AuthStep => (pc = "loop" /\ ~authorised /\ authCalls = 0)
        /\ (authorised \/ pc \in {"shutdown", "returned"})
            => (BookUnchanged /\ StoreUnchanged) ]_vars

\* bob was remembered and saved when the session was authorised; since then
\* a local message went out encrypted, a frame's text was delivered and the
\* local side ended the session
C30_Witness ==
    /\ authorised /\ pc = "shutdown" /\ Running /\ authCalls = 1
    /\ "bob" \in DOMAIN contacts /\ contacts["bob"] = theirFingerprint
    /\ "bob" \in DOMAIN store.tab /\ storeWrites = 1
    /\ \E i \in 1..Len(wire) : wire[i].enc /\ wire[i].body = "text"
    /\ localOut # <<>>

(* ---------------- two sessions and their bounded queues -------------- *)
\* Two authorised sessions joined by a transport.  Only the number of
\* messages in each queue is kept.  The channels of mainLoop hold 100
\* messages and a TCP connection buffers a bounded number of bytes; here
\* each holds PairCap respectively LinkCap messages.
PairCap == 1
LinkCap == 1
\* reads each local source returns
MaxPairReads == 6

\* both sessions authorised, every queue empty, both mainLoops at select
InitPair ==
    /\ anyone = FALSE
    /\ remember = ""
    /\ expect = ""
    /\ execCommand = ""
    /\ store = NoStore
    /\ Fresh
    /\ CodecIdle
    /\ mainAt = [s \in Sides |-> "select"]
    /\ srcReads = [s \in Sides |-> 0]
    /\ qStdIn = [s \in Sides |-> 0]
    /\ qNetOut = [s \in Sides |-> 0]
    /\ link = [s \in Sides |-> 0]
    /\ qNetIn = [s \in Sides |-> 0]
    /\ qStdOut = [s \in Sides |-> 0]

\* readLoop: ch <- buf[:n] blocks while stdInChan is full
PairReadLoop(s) ==
    /\ srcReads[s] < MaxPairReads /\ qStdIn[s] < PairCap
    /\ srcReads' = [srcReads EXCEPT ![s] = @ + 1]
    /\ qStdIn' = [qStdIn EXCEPT ![s] = @ + 1]
    /\ UNCHANGED << sessionVars, codecVars, mainAt, qNetOut, link, qNetIn,
                    qStdOut >>

\* case plaintext, alive := <-stdInChan; conv.Send returns one message,
\* which send(toSend) has yet to put on netOutChan
PairHandleStdIn(s) ==
    /\ mainAt[s] = "select" /\ qStdIn[s] > 0
    /\ qStdIn' = [qStdIn EXCEPT ![s] = @ - 1]
    /\ mainAt' = [mainAt EXCEPT ![s] = "send"]
    /\ UNCHANGED << sessionVars, codecVars, srcReads, qNetOut, link, qNetIn,
                    qStdOut >>

\* send: netOutChan <- msg blocks while netOutChan is full
PairSend(s) ==
    /\ mainAt[s] = "send" /\ qNetOut[s] < PairCap
    /\ qNetOut' = [qNetOut EXCEPT ![s] = @ + 1]
    /\ mainAt' = [mainAt EXCEPT ![s] = "select"]
    /\ UNCHANGED << sessionVars, codecVars, srcReads, qStdIn, link, qNetIn,
                    qStdOut >>

\* case otrText, alive := <-netInChan; conv.Receive returns the text of a
\* data message, which mainLoop has yet to put on stdOutChan
PairHandleNetIn(s) ==
    /\ mainAt[s] = "select" /\ qNetIn[s] > 0
    /\ qNetIn' = [qNetIn EXCEPT ![s] = @ - 1]
    /\ mainAt' = [mainAt EXCEPT ![s] = "deliver"]
    /\ UNCHANGED << sessionVars, codecVars, srcReads, qStdIn, qNetOut, link,
                    qStdOut >>

\* stdOutChan <- plaintext blocks while stdOutChan is full
PairDeliver(s) ==
    /\ mainAt[s] = "deliver" /\ qStdOut[s] < PairCap
    /\ qStdOut' = [qStdOut EXCEPT ![s] = @ + 1]
    /\ mainAt' = [mainAt EXCEPT ![s] = "select"]
    /\ UNCHANGED << sessionVars, codecVars, srcReads, qStdIn, qNetOut, link,
                    qNetIn >>

\* SendForever: a message of netOutChan is written to the transport; the
\* write blocks while the transport's buffer is full
PairSendForever(s) ==
    /\ qNetOut[s] > 0 /\ link[s] < LinkCap
    /\ qNetOut' = [qNetOut EXCEPT ![s] = @ - 1]
    /\ link' = [link EXCEPT ![s] = @ + 1]
    /\ UNCHANGED << sessionVars, codecVars, mainAt, srcReads, qStdIn, qNetIn,
                    qStdOut >>

\* ReceiveForever: a frame sent by the other side is read and put on
\* netInChan; ch <- msg blocks while netInChan is full
PairReceiveForever(s) ==
    /\ link[Other(s)] > 0 /\ qNetIn[s] < PairCap
    /\ link' = [link EXCEPT ![Other(s)] = @ - 1]
    /\ qNetIn' = [qNetIn EXCEPT ![s] = @ + 1]
    /\ UNCHANGED << sessionVars, codecVars, mainAt, srcReads, qStdIn, qNetOut,
                    qStdOut >>

\* writeLoop: a message of stdOutChan is written to the local sink
PairWriteLoop(s) ==
    /\ qStdOut[s] > 0
    /\ qStdOut' = [qStdOut EXCEPT ![s] = @ - 1]
    /\ UNCHANGED << sessionVars, codecVars, mainAt, srcReads, qStdIn, qNetOut,
                    link, qNetIn >>

NextPair ==
    \/ \E s \in Sides : PairReadLoop(s)
    \/ \E s \in Sides : PairHandleStdIn(s)
    \/ \E s \in Sides : PairSend(s)
    \/ \E s \in Sides : PairHandleNetIn(s)
    \/ \E s \in Sides : PairDeliver(s)
    \/ \E s \in Sides : PairSendForever(s)
    \/ \E s \in Sides : PairReceiveForever(s)
    \/ \E s \in Sides : PairWriteLoop(s)

SpecPair == InitPair /\ [][NextPair]_vars

(* ------------------------ plaintext left at exit ---------------------- *)
\* C31: when mainLoop has returned and the process has ended with status 0,
\* stdOutChan is empty: every plaintext mainLoop put there has been written
\* to the local sink by writeLoop.
C31_DeliveredBeforeExit == exit = "exit0" => stdOutChan = <<>>

(* --------------------------- queue deadlock --------------------------- *)
\* everything between the mainLoop of s and the mainLoop of the other side
\* is full: SendForever of s is blocked in its write and ReceiveForever of
\* the other side in its channel send
OutboundFull(s) ==
    qNetOut[s] = PairCap /\ link[s] = LinkCap /\ qNetIn[Other(s)] = PairCap

\* both mainLoops are blocked in netOutChan <- msg and all four remote
\* pumps are blocked: no goroutine of either side that could free a slot
\* can take a step, so neither mainLoop reaches its select again, and a
\* signal offered on sigTermChan is never taken
QueueDeadlock == \A s \in Sides : mainAt[s] = "send" /\ OutboundFull(s)

\* C32: two connected sessions never reach a state in which a mainLoop is
\* blocked for ever putting a message on a full queue while the pumps that
\* should empty it are blocked too.
C32_NoQueueDeadlock == ~QueueDeadlock

\* once reached, the deadlock stays: no step frees netOutChan or netInChan
QueueDeadlockStays == [][QueueDeadlock => QueueDeadlock']_vars

(* ------------------------- leaving the shutdown ----------------------- *)
\* C33: once mainLoop is in its shutdown loop and netInChan has been closed
\* (the peer closed the transport and ReceiveForever saw the end of the
\* stream), mainLoop eventually returns, unless an input/output error of a
\* pump ends the process with status 1 first; and mainLoop leaves the
\* shutdown loop in no other way: as long as netInChan is not closed it
\* stays there, however long that takes.
C33_ShutdownEnds ==
    /\ (pc = "shutdown" /\ netInClosed) ~> (pc = "returned" \/ exit = "exit1")
    /\ [][ pc = "shutdown" => (netInClosed' \/ pc' = "shutdown") ]_vars

\* mainLoop has returned from the shutdown loop that an interrupt started,
\* after the peer closed the transport
C33_Witness ==
    /\ pc = "returned" /\ exit = "running" /\ ~PeerEnded
    /\ InboundClosed /\ ~stdInClosed /\ ~sigPending
    /\ netOutChan # <<>> /\ netOutChan[Len(netOutChan)] = Nil

(* ------------------------- after the ending began --------------------- *)
\* mainLoop has left its select loop
LoopLeft == pc \in {"shutdown", "returned"}

\* C34: once mainLoop has left its select loop, frames are only taken off
\* netInChan and dropped: conv.Receive is not called (the engine and the
\* last result of Receive stay as they are, nobody is authorised, no reply
\* is put on netOutChan), nothing is put on stdOutChan, and nothing is taken
\* off stdInChan, so no queued local message reaches conv.Send.
C34_DrainedAfterEnding ==
    [][ LoopLeft
          => /\ lastRecv' = lastRecv /\ convState' = convState
             /\ theirKey' = theirKey /\ UNCHANGED authVars
             /\ netInChan' = netInChan
                  \/ (netInChan # <<>> /\ netInChan' = Tail(netInChan))
                  \/ (\E f \in 1..MaxFrames : netInChan' = Append(netInChan, f))
             /\ stdOutChan' = stdOutChan
                  \/ (stdOutChan # <<>> /\ stdOutChan' = Tail(stdOutChan))
             /\ netOutChan' = netOutChan
                  \/ (netOutChan # <<>> /\ netOutChan' = Tail(netOutChan))
             /\ stdInChan' = stdInChan
                  \/ (\E m \in Chunks : stdInChan' = Append(stdInChan, m)) ]_vars

\* an interrupt ended the session before anything was handled: both frames
\* that arrived were dropped without a call of Receive, and the handshake
\* message is still on stdInChan
C34_Witness ==
    /\ pc = "shutdown" /\ Running /\ framesIn = MaxFrames
    /\ netInChan = <<>> /\ lastRecv = NoResult /\ ~authorised
    /\ stdInChan = <<"query">> /\ stdOutChan = <<>>

(* ------------------------ the handshake message ----------------------- *)
\* every message put on netOutChan so far, oldest first, without the nil
\* message: what was written already, then what is still queued
Enqueued == SelectSeq(wire \o netOutChan, LAMBDA m : m # Nil)

\* C35: the handshake message is the first message conv.Send gets, before
\* anything read from the local source, and what Send returns for it is the
\* first message put on netOutChan, whatever frames of the peer arrive in
\* between: as long as it is still on stdInChan it is at the head and
\* nothing has been put on netOutChan, and the first message put on
\* netOutChan is the handshake message as Send returns it in the plaintext
\* state.
C35_QueryFirst ==
    /\ Running
        => /\ \A i \in 1..Len(stdInChan) : stdInChan[i] = "query" => i = 1
           /\ (stdInChan # <<>> /\ stdInChan[1] = "query") => Enqueued = <<>>
    /\ (Running /\ Enqueued # <<>>)
        => Enqueued[1] = [enc |-> FALSE, body |-> "query"]

(* ---------------------------- closed queues --------------------------- *)
\* C36: stdInChan is closed only by the running readLoop and netInChan only
\* by the running ReceiveForever, each of which has returned with that step,
\* so neither queue is closed twice; nothing is put on a closed queue; and
\* mainLoop puts the handshake message on stdInChan while readLoop has not
\* been started and stdInChan is open.
C36_ClosedQueuesLeftAlone ==
    [][ /\ stdInClosed' # stdInClosed
            => (stdInClosed' /\ readPump = "running" /\ readPump' = "stopped")
        /\ netInClosed' # netInClosed
            => (netInClosed' /\ recvPump = "running" /\ recvPump' = "stopped")
        /\ stdInClosed
            => (Len(stdInChan') <= Len(stdInChan) /\ readPump' = "stopped")
        /\ netInClosed
            => (Len(netInChan') <= Len(netInChan) /\ recvPump' = "stopped")
        /\ (Len(stdInChan') > Len(stdInChan) /\ stdInChan'[Len(stdInChan')] = "query")
            => (readPump = "off" /\ ~stdInClosed /\ pc = "mainLoop") ]_vars

\* both inbound queues were closed by their pumps, which have returned, and
\* mainLoop drained them
C36_Witness ==
    /\ stdInClosed /\ netInClosed
    /\ readPump = "stopped" /\ recvPump = "stopped"
    /\ stdInChan = <<>> /\ netInChan = <<>>
    /\ reads = MaxReads /\ framesIn = MaxFrames /\ Running

(* ---------------------- bytes returned at the end --------------------- *)
\* the source has returned every byte of the i-th frame and its delimiter
FrameReceived(i) ==
    Len(OnTheWire(SubSeq(codecFrames, 1, i))) <= Len(received)

\* C37: when Decode reports the end of the stream or an error, it has
\* returned every frame that the source returned complete with its
\* delimiter, also when the last bytes came in the read that reported the
\* end of the stream.
C37_NoFrameDropped ==
    decErr # ""
        => \A i \in 1..Len(codecFrames) :
              FrameReceived(i)
                  => (i <= Len(decoded) /\ decoded[i] = codecFrames[i])

====
